---- MODULE Spec2Model ----
(***************************************************************************)
(* label_batch_effects.PCRMinus_only.py: apply batch effect labels to a    *)
(* VCF.  The module models main() (table loading, the per-record pass)     *)
(* and reclassify_record().                                                *)
(*                                                                         *)
(* The specifications:                                                     *)
(*   Spec      a whole run of main(), from the reading of the table        *)
(*             (LiveSpec: the same run, which does not stop half way);     *)
(*   SpecPass  the per-record pass of main(), from the state main() is in  *)
(*             after loading a table that labels one variant;              *)
(*   SpecFn    reclassify_record() as a function of its three arguments.   *)
(***************************************************************************)
EXTENDS Integers, Sequences, FiniteSets, TLC

VARIABLES
    pc,             \* position in main() (or in the SpecFn harness)
    samples,        \* vcf.header.samples
    rct,            \* rows the csv reader yields from the table file
    uaf_plus,       \* lines of the --unstable-af-pcrplus file (Nothing: not given)
    uaf_minus,      \* lines of the --unstable-af-pcrminus file (Nothing: not given)
    reclass_table,  \* dict VID -> list of assignments
    plus_samples,   \* list of PCR+ sample IDs
    fout,           \* output VariantFile: "unopened", "open", "closed"
    n_read,         \* number of records the loop has taken from vcf
    record_in,      \* the current record as it was read
    record,         \* the current record object (mutated in place)
    reclass,        \* reclass_table.get(record.id, None)
    out_idx,        \* input positions of the records written to fout, in order
    out_last        \* what fout.write was given in the current iteration (NoRecord: nothing)

vars == <<pc, samples, rct, uaf_plus, uaf_minus, reclass_table, plus_samples,
          fout, n_read, record_in, record, reclass, out_idx, out_last>>

----------------------------------------------------------------------------
(* Bounds of the model *)

MaxSamples == 2      \* samples in the VCF header
MaxLabels == 2       \* length of the label list handed to reclassify_record (SpecFn)
MaxInput == 3        \* rows of the table plus lines of the two lists (Spec)
MaxRecords == 2      \* records of the input VCF (Spec)
MaxPassRecords == 1  \* records of the input VCF (SpecPass)

----------------------------------------------------------------------------
(* Values *)

\* Python's None as an allele of a GT tuple
None == -1

\* Optional values: None / a value
Nothing == [none |-> TRUE, val |-> <<>>]
Just(v) == [none |-> FALSE, val |-> v]

Range(s) == {s[i] : i \in 1..Len(s)}

\* mutant of In: only the first element of the list is looked at
In_first(x, s) == s # <<>> /\ x = s[1]

\* x in s, for a Python list s
In(x, s) == x \in Range(s)
SeqsOf(S, n) == [1..n -> S]
SeqsUpTo(S, n) == UNION {SeqsOf(S, k) : k \in 0..n}

RecognizedLabels ==
    {"PCRPLUS_ENRICHED", "PCRPLUS_DEPLETED", "VARIABLE_ACROSS_BATCHES",
     "UNSTABLE_AF_PCRPLUS", "UNSTABLE_AF_PCRMINUS"}
Labels == RecognizedLabels \cup {"NOT_A_LABEL"}

SampleNames == <<"S1", "S2", "S3", "S4">>
Header(n) == SubSeq(SampleNames, 1, n)

EmptyMap == <<>>
NoRecord == [id |-> "", filter |-> {}, info |-> EmptyMap, samples |-> EmptyMap]

----------------------------------------------------------------------------
(* pysam record accessors used by the script *)

\* mutant of FilterAdd: the tag replaces the FILTER set
FilterAdd_replace(rec, tag) == [rec EXCEPT !.filter = {tag}]

\* record.filter.add(tag)
FilterAdd(rec, tag) == [rec EXCEPT !.filter = @ \cup {tag}]

\* record.info.keys(): a fresh list of the keys; appending to it leaves the
\* record as it is
InfoKeysAppend(rec, key) == rec

\* record.info[key] = True
InfoSet(rec, key) ==
    [rec EXCEPT !.info = [k \in (DOMAIN @) \cup {key} |->
                             IF k = key THEN "True" ELSE @[k]]]

\* record.samples[samp]['GT'] = (None, None), for every samp of S
NullGTs(rec, S) ==
    [rec EXCEPT !.samples = [s \in DOMAIN @ |->
                                IF s \in S THEN <<None, None>> ELSE @[s]]]

----------------------------------------------------------------------------
(* reclassify_record *)

\* lines 17-30
Tagged(rec, reclass_) ==
    LET r1 == IF In("PCRPLUS_ENRICHED", reclass_)
              THEN FilterAdd(rec, "PCRPLUS_ENRICHED") ELSE rec
        r2 == IF In("PCRPLUS_DEPLETED", reclass_)
              THEN InfoSet(IF "PCRPLUS_DEPLETED" \notin DOMAIN r1.info
                           THEN InfoKeysAppend(r1, "PCRPLUS_DEPLETED") ELSE r1,
                           "PCRPLUS_DEPLETED")
              ELSE r1
        r3 == IF In("VARIABLE_ACROSS_BATCHES", reclass_)
              THEN FilterAdd(r2, "VARIABLE_ACROSS_BATCHES") ELSE r2
        r4 == IF In("UNSTABLE_AF_PCRPLUS", reclass_)
              THEN InfoSet(IF "UNSTABLE_AF_PCRPLUS" \notin DOMAIN r3.info
                           THEN InfoKeysAppend(r3, "UNSTABLE_AF_PCRPLUS") ELSE r3,
                           "UNSTABLE_AF_PCRPLUS")
              ELSE r3
    IN  IF In("UNSTABLE_AF_PCRMINUS", reclass_)
        THEN FilterAdd(r4, "UNSTABLE_AF_PCRMINUS") ELSE r4

\* mutant of NullMinus: the test of line 35 without its "not"
NullMinus_in(rec, reclass_, plus_samples_) ==
    IF In("PCRPLUS_ENRICHED", reclass_) \/ In("UNSTABLE_AF_PCRPLUS", reclass_)
    THEN NullGTs(rec, {samp \in DOMAIN rec.samples : In(samp, plus_samples_)})
    ELSE rec

\* lines 32-36
NullMinus(rec, reclass_, plus_samples_) ==
    IF In("PCRPLUS_ENRICHED", reclass_) \/ In("UNSTABLE_AF_PCRPLUS", reclass_)
    THEN NullGTs(rec, {samp \in DOMAIN rec.samples : ~In(samp, plus_samples_)})
    ELSE rec

\* mutant of NullPlus: the test of line 41 with a "not"
NullPlus_notin(rec, reclass_, plus_samples_) ==
    IF In("PCRPLUS_DEPLETED", reclass_) \/ In("UNSTABLE_AF_PCRMINUS", reclass_)
    THEN NullGTs(rec, {samp \in DOMAIN rec.samples : ~In(samp, plus_samples_)})
    ELSE rec

\* lines 38-42
NullPlus(rec, reclass_, plus_samples_) ==
    IF In("PCRPLUS_DEPLETED", reclass_) \/ In("UNSTABLE_AF_PCRMINUS", reclass_)
    THEN NullGTs(rec, {samp \in DOMAIN rec.samples : In(samp, plus_samples_)})
    ELSE rec

reclassify_record(rec, reclass_, plus_samples_) ==
    NullPlus(NullMinus(Tagged(rec, reclass_), reclass_, plus_samples_),
             reclass_, plus_samples_)

----------------------------------------------------------------------------
(* main: reading the reclassification table and the unstable AF files *)

\* mutant of AddAssignment: the new assignment replaces the list
AddAssignment_replace(table, VID, assignment) ==
    [k \in (DOMAIN table) \cup {VID} |->
        IF k = VID THEN <<assignment>> ELSE table[k]]

\* if VID not in reclass_table.keys(): reclass_table[VID] = [assignment]
\* else: reclass_table[VID].append(assignment)
AddAssignment(table, VID, assignment) ==
    IF VID \notin DOMAIN table
    THEN [k \in (DOMAIN table) \cup {VID} |->
             IF k = VID THEN <<assignment>> ELSE table[k]]
    ELSE [table EXCEPT ![VID] = Append(@, assignment)]

\* mutant of ReadRows: a row that is not of two fields is skipped
RECURSIVE ReadRows_skip(_, _)
ReadRows_skip(table, rows) ==
    IF rows = <<>> THEN [ok |-> TRUE, table |-> table]
    ELSE IF Len(Head(rows)) # 2 THEN ReadRows_skip(table, Tail(rows))
    ELSE ReadRows_skip([k \in (DOMAIN table) \cup {Head(rows)[1]} |->
                          IF k = Head(rows)[1]
                          THEN (IF k \in DOMAIN table THEN table[k] ELSE <<>>)
                               \o <<Head(rows)[2]>>
                          ELSE table[k]],
                       Tail(rows))

\* for VID, assignment in reader: a row that does not unpack into two names
\* raises ValueError
RECURSIVE ReadRows(_, _)
ReadRows(table, rows) ==
    IF rows = <<>> THEN [ok |-> TRUE, table |-> table]
    ELSE IF Len(Head(rows)) # 2 THEN [ok |-> FALSE, table |-> table]
    ELSE ReadRows(AddAssignment(table, Head(rows)[1], Head(rows)[2]), Tail(rows))

\* line.rstrip('\n') of a line of a text file: its text without the line end
rstrip(line) == line.text

\* [line.rstrip('\n') for line in open(path)]
StripAll(lines) == [i \in 1..Len(lines) |-> rstrip(lines[i])]

\* for VID in uaf_vids: add assignment to reclass_table[VID]
RECURSIVE AddAll(_, _, _)
AddAll(table, vids, assignment) ==
    IF vids = <<>> THEN table
    ELSE AddAll(AddAssignment(table, Head(vids), assignment), Tail(vids), assignment)

\* lines 99-107
ReadTable ==
    /\ pc = "read_table"
    /\ IF rct.none
       THEN /\ pc' = "aborted"
            /\ UNCHANGED reclass_table
       ELSE LET res == ReadRows(EmptyMap, rct.val)
            IN  /\ reclass_table' = res.table
                /\ pc' = IF res.ok THEN "add_plus" ELSE "aborted"
    /\ UNCHANGED <<samples, rct, uaf_plus, uaf_minus, plus_samples, fout, n_read,
                   record_in, record, reclass, out_idx, out_last>>

\* lines 108-116
AddUnstablePlus ==
    /\ pc = "add_plus"
    /\ reclass_table' = IF uaf_plus.none THEN reclass_table
                        ELSE AddAll(reclass_table, StripAll(uaf_plus.val),
                                    "UNSTABLE_AF_PCRPLUS")
    /\ pc' = "add_minus"
    /\ UNCHANGED <<samples, rct, uaf_plus, uaf_minus, plus_samples, fout, n_read,
                   record_in, record, reclass, out_idx, out_last>>

\* lines 117-125
AddUnstableMinus ==
    /\ pc = "add_minus"
    /\ reclass_table' = IF uaf_minus.none THEN reclass_table
                        ELSE AddAll(reclass_table, StripAll(uaf_minus.val),
                                    "UNSTABLE_AF_PCRMINUS")
    /\ pc' = "open_out"
    /\ UNCHANGED <<samples, rct, uaf_plus, uaf_minus, plus_samples, fout, n_read,
                   record_in, record, reclass, out_idx, out_last>>

\* lines 127-137: plus_samples = [] and the output VariantFile is opened
OpenOutput ==
    /\ pc = "open_out"
    /\ plus_samples' = <<>>
    /\ fout' = "open"
    /\ pc' = "loop"
    /\ UNCHANGED <<samples, rct, uaf_plus, uaf_minus, reclass_table, n_read,
                   record_in, record, reclass, out_idx, out_last>>

----------------------------------------------------------------------------
(* main: the pass over the records *)

\* mutant of NULL_GTs: the list without its last entry
NULL_GTs_short == {<<0, 0>>, <<None, None>>, <<0>>, <<None>>}

NULL_GTs == {<<0, 0>>, <<None, None>>, <<0>>, <<None>>, <<None, 2>>}

\* reclass_table.get(key, None)
Get(table, key) == IF key \in DOMAIN table THEN Just(table[key]) ELSE Nothing

\* for s in vcf.header.samples: if newrecord.samples[s]['GT'] not in NULL_GTs:
\*     fout.write(newrecord); break
Retained(rec, header) ==
    \E i \in 1..Len(header) : rec.samples[header[i]] \notin NULL_GTs

\* fout.write(rec)
Write(rec) ==
    /\ out_idx' = Append(out_idx, n_read)
    /\ out_last' = rec

\* line 141-142: the iterator yields the next record, and its labels are looked up
NextRecord(Recs, maxrecs) ==
    /\ pc = "loop"
    /\ n_read < maxrecs
    /\ \E r \in Recs :
          /\ record_in' = r
          /\ record' = r
          /\ reclass' = Get(reclass_table, r.id)
          /\ pc' = IF reclass'.none THEN "pass" ELSE "reclassify"
    /\ n_read' = n_read + 1
    /\ UNCHANGED <<samples, rct, uaf_plus, uaf_minus, reclass_table, plus_samples,
                   fout, out_idx, out_last>>

\* mutant of PassThrough: the record is written only if a call is retained
PassThrough_filtered ==
    /\ pc = "pass"
    /\ IF Retained(record, samples)
       THEN Write(record)
       ELSE UNCHANGED <<out_idx, out_last>>
    /\ pc' = "handled"
    /\ UNCHANGED <<samples, rct, uaf_plus, uaf_minus, reclass_table, plus_samples,
                   fout, n_read, record_in, record, reclass>>

\* lines 143-144
PassThrough ==
    /\ pc = "pass"
    /\ Write(record)
    /\ pc' = "handled"
    /\ UNCHANGED <<samples, rct, uaf_plus, uaf_minus, reclass_table, plus_samples,
                   fout, n_read, record_in, record, reclass>>

\* line 146
Reclassify ==
    /\ pc = "reclassify"
    /\ record' = reclassify_record(record, reclass.val, plus_samples)
    /\ pc' = "emit"
    /\ UNCHANGED <<samples, rct, uaf_plus, uaf_minus, reclass_table, plus_samples,
                   fout, n_read, record_in, reclass, out_idx, out_last>>

\* mutant of Emit: the loop of line 148 without its break
Emit_nobreak ==
    /\ pc = "emit"
    /\ LET kept == {i \in 1..Len(samples) : record.samples[samples[i]] \notin NULL_GTs}
       IN  /\ out_idx' = out_idx \o [i \in 1..Cardinality(kept) |-> n_read]
           /\ out_last' = IF kept = {} THEN out_last ELSE record
    /\ pc' = "handled"
    /\ UNCHANGED <<samples, rct, uaf_plus, uaf_minus, reclass_table, plus_samples,
                   fout, n_read, record_in, record, reclass>>

\* lines 147-151
Emit ==
    /\ pc = "emit"
    /\ IF Retained(record, samples)
       THEN Write(record)
       ELSE UNCHANGED <<out_idx, out_last>>
    /\ pc' = "handled"
    /\ UNCHANGED <<samples, rct, uaf_plus, uaf_minus, reclass_table, plus_samples,
                   fout, n_read, record_in, record, reclass>>

\* the end of the loop body, back to line 141: the names record, reclass and
\* newrecord are bound anew before they are used again
NextIteration ==
    /\ pc = "handled"
    /\ pc' = "loop"
    /\ record_in' = NoRecord
    /\ record' = NoRecord
    /\ reclass' = Nothing
    /\ out_last' = NoRecord
    /\ UNCHANGED <<samples, rct, uaf_plus, uaf_minus, reclass_table, plus_samples,
                   fout, n_read, out_idx>>

\* line 141 (the iterator is exhausted) and line 153
CloseOutput ==
    /\ pc = "loop"
    /\ fout' = "closed"
    /\ pc' = "done"
    /\ UNCHANGED <<samples, rct, uaf_plus, uaf_minus, reclass_table, plus_samples,
                   n_read, record_in, record, reclass, out_idx, out_last>>

----------------------------------------------------------------------------
(* Inputs of a whole run *)

GTMaps(header, gts) == [Range(header) -> gts]

\* rows of the table file as the csv reader splits them
TableVIDs == {"varA", "varB"}
TableLabels == {"PCRPLUS_ENRICHED", "UNSTABLE_AF_PCRPLUS", "VARIABLE_ACROSS_BATCHES"}
GoodRows == {<<v, l>> : v \in TableVIDs, l \in TableLabels}
BadRows == {<<"varA">>, <<"varA", "PCRPLUS_ENRICHED", "x">>}

\* lines of a list file: every line but the last ends with a newline
ListLines == [text : {"varA", "varC"}, eol : {"\n", ""}]
ListFiles(n) ==
    {f \in SeqsOf(ListLines, n) : \A i \in 1..(Len(f) - 1) : f[i].eol = "\n"}

\* records of the input VCF of a whole run: every sample carries the same call
RunRecords(header) ==
    {[id |-> "varA", filter |-> {}, info |-> EmptyMap,
      samples |-> [s \in Range(header) |-> <<0, 1>>]],
     [id |-> "varB", filter |-> {"LOW_QUALITY"}, info |-> EmptyMap,
      samples |-> [s \in Range(header) |-> <<0, 0>>]]}

Init ==
    /\ pc = "read_table"
    /\ samples = Header(MaxSamples)
    /\ \E n \in 0..MaxInput : \E m \in 0..(MaxInput - n) :
          /\ rct \in {Nothing} \cup {Just(f) : f \in SeqsOf(GoodRows \cup BadRows, n)}
          /\ uaf_plus \in {Nothing} \cup {Just(f) : f \in ListFiles(m)}
          /\ uaf_minus \in {Nothing} \cup
                          UNION {{Just(f) : f \in ListFiles(k)} : k \in 0..(MaxInput - n - m)}
    /\ reclass_table = EmptyMap
    /\ plus_samples = <<>>
    /\ fout = "unopened"
    /\ n_read = 0
    /\ record_in = NoRecord
    /\ record = NoRecord
    /\ reclass = Nothing
    /\ out_idx = <<>>
    /\ out_last = NoRecord

Next ==
    \/ ReadTable
    \/ AddUnstablePlus
    \/ AddUnstableMinus
    \/ OpenOutput
    \/ NextRecord(RunRecords(samples), MaxRecords)
    \/ PassThrough
    \/ Reclassify
    \/ Emit
    \/ NextIteration
    \/ CloseOutput

Spec == Init /\ [][Next]_vars

----------------------------------------------------------------------------
(* The pass alone: main() after it loaded a table that gives "varA" the   *)
(* labels of one subset of Labels (no list files), at line 139             *)

RECURSIVE SetToSeq(_)
SetToSeq(S) ==
    IF S = {} THEN <<>>
    ELSE LET x == CHOOSE y \in S : TRUE IN <<x>> \o SetToSeq(S \ {x})

RowsFor(v, S) == LET ls == SetToSeq(S) IN [i \in 1..Len(ls) |-> <<v, ls[i]>>]

\* the calls of the input records: the reference and missing calls of both
\* ploidies, (None, 2) and its mirror image, and a heterozygous call
GTs == {<<0, 0>>, <<None, None>>, <<0>>, <<None>>, <<None, 2>>, <<2, None>>, <<0, 1>>}

Annotations ==
    {[filter |-> {}, info |-> EmptyMap],
     [filter |-> {"LOW_QUALITY"}, info |-> [k \in {"SVTYPE"} |-> "DEL"]]}

PassRecords(header) ==
    {[id |-> i, filter |-> a.filter, info |-> a.info, samples |-> g] :
        i \in {"varA", "varB"}, a \in Annotations, g \in GTMaps(header, GTs)}

InitPass ==
    /\ pc = "loop"
    /\ \E n \in 0..MaxSamples : samples = Header(n)
    /\ \E S \in SUBSET Labels :
          /\ rct = Just(RowsFor("varA", S))
          /\ reclass_table = ReadRows(EmptyMap, RowsFor("varA", S)).table
    /\ uaf_plus = Nothing
    /\ uaf_minus = Nothing
    /\ plus_samples = <<>>
    /\ fout = "open"
    /\ n_read = 0
    /\ record_in = NoRecord
    /\ record = NoRecord
    /\ reclass = Nothing
    /\ out_idx = <<>>
    /\ out_last = NoRecord

NextPass ==
    \/ NextRecord(PassRecords(samples), MaxPassRecords)
    \/ PassThrough
    \/ Reclassify
    \/ Emit
    \/ NextIteration
    \/ CloseOutput

SpecPass == InitPass /\ [][NextPass]_vars

----------------------------------------------------------------------------
(* reclassify_record as a function: called once, called again on its own  *)
(* result, and called with the same labels in another order or number      *)

FnGTs == {<<0, 1>>, <<None, None>>, <<1>>}

FnAnnotations ==
    Annotations \cup
    {[filter |-> {"LOW_QUALITY", "PCRPLUS_ENRICHED"},
      info |-> [k \in {"SVTYPE", "PCRPLUS_DEPLETED"} |->
                  IF k = "SVTYPE" THEN "DEL" ELSE "True"]]}

FnRecords(header) ==
    {[id |-> "varA", filter |-> a.filter, info |-> a.info, samples |-> g] :
        a \in FnAnnotations, g \in GTMaps(header, FnGTs)}

\* the lists with the labels of ls in another order, or with one of them twice
Permuted(ls) ==
    {[i \in 1..Len(ls) |-> ls[p[i]]] :
        p \in {q \in [1..Len(ls) -> 1..Len(ls)] : \A j \in 1..Len(ls) : \E i \in 1..Len(ls) : q[i] = j}}
Variants(ls) == Permuted(ls) \cup {Append(ls, ls[i]) : i \in 1..Len(ls)}

InitFn ==
    /\ pc = "fn_start"
    /\ \E n \in 0..MaxSamples : samples = Header(n)
    /\ record_in \in FnRecords(samples)
    /\ record = record_in
    /\ reclass \in {Just(ls) : ls \in SeqsUpTo(Labels, MaxLabels)}
    /\ plus_samples \in {SetToSeq(P) : P \in SUBSET Range(Header(MaxSamples))}
    /\ rct = Nothing
    /\ uaf_plus = Nothing
    /\ uaf_minus = Nothing
    /\ reclass_table = EmptyMap
    /\ fout = "unopened"
    /\ n_read = 0
    /\ out_idx = <<>>
    /\ out_last = NoRecord

FnCall ==
    /\ pc = "fn_start"
    /\ record' = reclassify_record(record, reclass.val, plus_samples)
    /\ pc' = "fn_once"
    /\ UNCHANGED <<samples, rct, uaf_plus, uaf_minus, reclass_table, plus_samples,
                   fout, n_read, record_in, reclass, out_idx, out_last>>

FnCallAgain ==
    /\ pc = "fn_once"
    /\ record' = reclassify_record(record, reclass.val, plus_samples)
    /\ pc' = "fn_twice"
    /\ UNCHANGED <<samples, rct, uaf_plus, uaf_minus, reclass_table, plus_samples,
                   fout, n_read, record_in, reclass, out_idx, out_last>>

FnCallVariant ==
    /\ pc = "fn_start"
    /\ \E ls \in Variants(reclass.val) :
          record' = reclassify_record(record, ls, plus_samples)
    /\ pc' = "fn_variant"
    /\ UNCHANGED <<samples, rct, uaf_plus, uaf_minus, reclass_table, plus_samples,
                   fout, n_read, record_in, reclass, out_idx, out_last>>

NextFn ==
    \/ FnCall
    \/ FnCallAgain
    \/ FnCallVariant

SpecFn == InitFn /\ [][NextFn]_vars

\* a run of main() under the scheduling of a single thread: it keeps going
LiveSpec == Init /\ [][Next]_vars /\ WF_vars(Next)

----------------------------------------------------------------------------
(* Properties *)

\* the null-genotype set of the specification: hom-ref (the reference call of
\* either ploidy, (0, 0) and (0, )), fully missing as a 2-tuple and as a
\* 1-tuple, and the mixed-missing form (None, 2)
NullGenotypeSet == {<<0, 0>>, <<0>>, <<None, None>>, <<None>>, <<None, 2>>}

Informative(rec) == \E s \in DOMAIN rec.samples : rec.samples[s] \notin NullGenotypeSet

\* the loop body has run to its end for the record read last
Handled == pc = "handled"

\* the record read last was written to the output
Written == out_idx # <<>> /\ out_idx[Len(out_idx)] = n_read

HasEntry == record_in.id \in DOMAIN reclass_table

LabelSet == Range(reclass.val)

MinusNulling == {"PCRPLUS_ENRICHED", "UNSTABLE_AF_PCRPLUS"}
PlusNulling == {"PCRPLUS_DEPLETED", "UNSTABLE_AF_PCRMINUS"}
FilterLabels == {"PCRPLUS_ENRICHED", "VARIABLE_ACROSS_BATCHES", "UNSTABLE_AF_PCRMINUS"}
InfoLabels == {"PCRPLUS_DEPLETED", "UNSTABLE_AF_PCRPLUS"}

AllMissing(rec) == \A s \in DOMAIN rec.samples : rec.samples[s] = <<None, None>>

\* C1: a record whose ID has an entry in the table is written if and only if,
\* after reclassify_record, some sample's GT is outside the null-genotype set;
\* a record with no sample or with only null calls is not written, whatever
\* its labels
C1_EmittedIffInformative ==
    (Handled /\ HasEntry) =>
        /\ Written <=> Informative(record)
        /\ Written => out_last = record

C1_Witness ==
    /\ Handled /\ HasEntry /\ ~Written
    /\ samples # <<>>
    /\ LabelSet = {"VARIABLE_ACROSS_BATCHES"}
    /\ \A s \in DOMAIN record.samples : record.samples[s] = <<None, 2>>

\* C2: a record whose ID has no entry in the table is always written, with the
\* FILTER, INFO and genotypes it was read with, also when every genotype is null
C2_PassThroughUnchanged ==
    /\ (pc \in {"reclassify", "emit"}) => HasEntry
    /\ (Handled /\ ~HasEntry) =>
          /\ Written
          /\ out_last = record_in
          /\ record = record_in

C2_Witness ==
    /\ Handled /\ ~HasEntry /\ Written
    /\ samples # <<>>
    /\ ~Informative(record_in)
    /\ record_in.filter # {}
    /\ out_last = record_in

C3_ToNull ==
    {s \in DOMAIN record_in.samples :
        \/ s \notin Range(plus_samples) /\ LabelSet \cap MinusNulling # {}
        \/ s \in Range(plus_samples) /\ LabelSet \cap PlusNulling # {}}

C4_UnrecognizedAsAbsent ==
    (Handled /\ HasEntry /\ LabelSet \cap RecognizedLabels = {}) =>
        /\ Written
        /\ out_last = record_in

C6_AnnotationsGrow ==
    pc = "fn_once" =>
        /\ record.filter = record_in.filter \cup (LabelSet \cap FilterLabels)
        /\ DOMAIN record.info = (DOMAIN record_in.info) \cup (LabelSet \cap InfoLabels)
        /\ \A k \in DOMAIN record.info :
              record.info[k] = IF k \in LabelSet \cap InfoLabels THEN "True"
                               ELSE record_in.info[k]

C6_Witness ==
    /\ pc = "fn_once"
    /\ record_in.filter = {"LOW_QUALITY"}
    /\ DOMAIN record_in.info = {"SVTYPE"}
    /\ LabelSet = {"PCRPLUS_ENRICHED", "PCRPLUS_DEPLETED"}
    /\ record.filter = {"LOW_QUALITY", "PCRPLUS_ENRICHED"}
    /\ DOMAIN record.info = {"SVTYPE", "PCRPLUS_DEPLETED"}

\* C7: reclassify_record applied to its own result gives that result again, a
\* fully-missing GT stays fully missing, and the result is the same for the
\* labels in another order or with a label repeated
C7_Idempotent ==
    /\ (pc \in {"fn_twice", "fn_variant"}) =>
          record = reclassify_record(record_in, reclass.val, plus_samples)
    /\ (pc \in {"fn_once", "fn_twice", "fn_variant"}) =>
          \A s \in DOMAIN record_in.samples :
              record_in.samples[s] = <<None, None>> => record.samples[s] = <<None, None>>

C7_Witness ==
    /\ pc = "fn_twice"
    /\ samples = <<"S1", "S2">>
    /\ plus_samples = <<"S1">>
    /\ reclass.val = <<"UNSTABLE_AF_PCRMINUS", "PCRPLUS_DEPLETED">>
    /\ record_in.samples["S1"] = <<0, 1>>
    /\ record.samples["S1"] = <<None, None>>
    /\ record # record_in

C8_Loaded == pc \in {"open_out", "loop", "pass", "reclassify", "emit", "handled", "done"}

C8_MainLabels(v) ==
    LET OfV(row) == row[1] = v
        sel == SelectSeq(rct.val, OfV)
    IN  [i \in 1..Len(sel) |-> sel[i][2]]

C8_Occurrences(v, list) ==
    IF list.none THEN 0
    ELSE Cardinality({i \in 1..Len(list.val) : list.val[i].text = v})

C8_Expected(v) ==
    C8_MainLabels(v)
        \o [i \in 1..C8_Occurrences(v, uaf_plus) |-> "UNSTABLE_AF_PCRPLUS"]
        \o [i \in 1..C8_Occurrences(v, uaf_minus) |-> "UNSTABLE_AF_PCRMINUS"]

C8_VIDs ==
    {rct.val[i][1] : i \in 1..Len(rct.val)}
        \cup {uaf_plus.val[i].text : i \in 1..Len(uaf_plus.val)}
        \cup {uaf_minus.val[i].text : i \in 1..Len(uaf_minus.val)}

\* C8: the loaded table gives each VID the labels of its rows of the main
\* table, in their order, then UNSTABLE_AF_PCRPLUS once per occurrence in the
\* plus list, then UNSTABLE_AF_PCRMINUS once per occurrence in the minus list;
\* a VID found only in the plus list has the entry a single main row
\* (VID, UNSTABLE_AF_PCRPLUS) gives; a list that is not supplied adds nothing
C8_MergedTable ==
    C8_Loaded =>
        /\ DOMAIN reclass_table = C8_VIDs
        /\ \A v \in C8_VIDs : reclass_table[v] = C8_Expected(v)
        /\ \A v \in C8_VIDs :
              (C8_MainLabels(v) = <<>> /\ C8_Occurrences(v, uaf_plus) = 1
                 /\ C8_Occurrences(v, uaf_minus) = 0)
              => Get(reclass_table, v)
                    = Get(ReadRows(EmptyMap, <<<<v, "UNSTABLE_AF_PCRPLUS">>>>).table, v)

C8_Witness ==
    /\ C8_Loaded
    /\ uaf_minus.none
    /\ DOMAIN reclass_table = {"varA", "varC"}
    /\ reclass_table["varA"] = <<"UNSTABLE_AF_PCRPLUS", "UNSTABLE_AF_PCRPLUS">>
    /\ reclass_table["varC"] = <<"UNSTABLE_AF_PCRPLUS">>
    /\ C8_MainLabels("varC") = <<>>

C9_Malformed == rct.none \/ \E i \in 1..Len(rct.val) : Len(rct.val[i]) # 2

\* C9: when the table file cannot be read or holds a row that is not of two
\* fields, the run stops in the reading of the table: the output is never
\* opened, no record is read or written
C9_FailFast ==
    C9_Malformed =>
        /\ pc \in {"read_table", "aborted"}
        /\ fout = "unopened"
        /\ n_read = 0
        /\ out_idx = <<>>

C9_Witness ==
    /\ pc = "aborted"
    /\ ~rct.none
    /\ Len(rct.val) = 3
    /\ Len(rct.val[1]) = 2 /\ Len(rct.val[2]) = 1 /\ Len(rct.val[3]) = 2

C10_InPass == pc \in {"loop", "pass", "reclassify", "emit", "handled"}

C10_Ordered ==
    /\ \A i \in 1..Len(out_idx) : out_idx[i] \in 1..n_read
    /\ \A i \in 1..Len(out_idx) : \A j \in 1..Len(out_idx) : i < j => out_idx[i] < out_idx[j]
    /\ n_read > 0 => (C10_InPass \/ pc = "done")
    /\ pc = "done" => fout = "closed"
    /\ C10_InPass => fout = "open"

C10_Step ==
    /\ n_read' # n_read => (pc = "loop" /\ n_read' = n_read + 1)
    /\ pc' = "reclassify" => n_read' = n_read + 1
    /\ record' # record =>
          \/ n_read' = n_read + 1
          \/ pc = "reclassify" /\ pc' = "emit"
          \/ pc = "handled" /\ pc' = "loop"
    /\ out_idx' # out_idx =>
          /\ out_idx' = Append(out_idx, n_read)
          /\ out_last' = record
          /\ pc \in {"pass", "emit"} /\ pc' = "handled"
    /\ (C10_InPass \/ pc = "done") =>
          (reclass_table' = reclass_table /\ plus_samples' = plus_samples)

\* C10: the records are handled one at a time and in order: a record is read
\* only when the one before it has been handled, it is reclassified at most
\* once and written at most once, the positions written increase, the table
\* and the roster are not touched once the pass has begun, and the run ends
\* with the output closed
C10_Sequential ==
    /\ []C10_Ordered
    /\ [][C10_Step]_vars
    /\ <>(pc \in {"done", "aborted"})

C10_Witness ==
    /\ pc = "done"
    /\ n_read = 2
    /\ out_idx = <<2>>

====
